---- MODULE Spec2Model ----
(***************************************************************************)
(* Model of tensorflow/core/kernels/dml_scan_ops.cc: the Cumsum / Cumprod  *)
(* DirectML kernels.  ScanInitHelper validates and resolves the scan axis, *)
(* DmlScanKernel collapses the input shape to [1, left, axis, right] and   *)
(* builds one cumulative-scan graph node on DML axis 2.                    *)
(*                                                                         *)
(* Fixed-width C++ integers are little-endian sequences of bytes in two's  *)
(* complement, so that int (4 bytes), int32 (4 bytes) and int64 (8 bytes)  *)
(* keep their width: additions and multiplications wrap, narrowing         *)
(* conversions drop the high bytes, widening conversions sign-extend.      *)
(***************************************************************************)
EXTENDS Integers, Sequences, FiniteSets, TLC

(***************************************************************************)
(* Bounds of the model.                                                    *)
(***************************************************************************)
\* largest rank of an operand shape
MaxRank == 3
\* number of invocations that may be in flight at once
NumInv == 2

(***************************************************************************)
(* Widths of the C++ integer types the kernel uses, in bytes.              *)
(***************************************************************************)
IntBytes == 4
Int64Bytes == 8
\* wide enough for the exact product of MaxRank + 1 dimension sizes
WideBytes == 2 * Int64Bytes

TidxTypes == {"int32", "int64"}
TidxBytes(t) == IF t = "int32" THEN IntBytes ELSE Int64Bytes

Max(a, b) == IF a >= b THEN a ELSE b

(***************************************************************************)
(* Fixed-width integer arithmetic.                                         *)
(***************************************************************************)
RECURSIVE NatBytes(_, _)
\* the n low bytes of the natural number v
NatBytes(v, n) ==
    IF n = 0 THEN <<>> ELSE <<v % 256>> \o NatBytes(v \div 256, n - 1)

\* bitwise complement
Not(b) == [k \in 1..Len(b) |-> 255 - b[k]]

\* the n-byte two's complement encoding of the (small) integer v
FromInt(v, n) == IF v >= 0 THEN NatBytes(v, n) ELSE Not(NatBytes(-(v + 1), n))

\* most negative and most positive value of an n-byte signed type
MinVal(n) == [k \in 1..n |-> IF k = n THEN 128 ELSE 0]
MaxVal(n) == [k \in 1..n |-> IF k = n THEN 127 ELSE 255]

\* sign test of a signed value: (x < 0)
IsNegative(b) == b[Len(b)] >= 128

\* integral conversion of a signed value to an n-byte type: narrowing keeps
\* the low bytes, widening sign-extends
Convert(b, n) ==
    IF n <= Len(b) THEN SubSeq(b, 1, n)
    ELSE b \o [k \in 1..(n - Len(b)) |-> IF IsNegative(b) THEN 255 ELSE 0]

RECURSIVE AddCarry(_, _, _)
AddCarry(a, b, c) ==
    IF a = <<>> THEN <<>>
    ELSE LET s == a[1] + b[1] + c
         IN  <<s % 256>> \o AddCarry(Tail(a), Tail(b), s \div 256)

\* a + b on operands of one width, wrapping
Add(a, b) == AddCarry(a, b, 0)

RECURSIVE MulByte(_, _, _)
MulByte(a, d, c) ==
    IF a = <<>> THEN <<>>
    ELSE LET p == a[1] * d + c
         IN  <<p % 256>> \o MulByte(Tail(a), d, p \div 256)

RECURSIVE MulFrom(_, _, _)
MulFrom(a, b, k) ==
    IF k > Len(b) THEN [j \in 1..Len(a) |-> 0]
    ELSE Add(SubSeq([j \in 1..(k - 1) |-> 0] \o MulByte(a, b[k], 0), 1, Len(a)),
             MulFrom(a, b, k + 1))

\* a * b on operands of one width, wrapping
Mul(a, b) == MulFrom(a, b, 1)

RECURSIVE ULess(_, _)
\* a < b, both read as unsigned values of one width
ULess(a, b) ==
    IF a = <<>> THEN FALSE
    ELSE LET n == Len(a)
         IN  IF a[n] # b[n] THEN a[n] < b[n]
             ELSE ULess(SubSeq(a, 1, n - 1), SubSeq(b, 1, n - 1))

\* a < b, both read as signed values of one width
SLess(a, b) ==
    IF IsNegative(a) # IsNegative(b) THEN IsNegative(a) ELSE ULess(a, b)

SLeq(a, b) == a = b \/ SLess(a, b)

RECURSIVE NatVal(_)
\* the value of a small non-negative number
NatVal(b) == IF b = <<>> THEN 0 ELSE b[1] + 256 * NatVal(Tail(b))

(***************************************************************************)
(* Inputs of an invocation.                                                *)
(***************************************************************************)
\* dimension sizes an operand may have; 65536 * 65536 does not fit in an int
DimSizes == {0, 2, 65536}

\* TensorShape: the sequence of the dimension sizes
Shapes(maxrank) == UNION {[1..r -> DimSizes] : r \in 0..maxrank}

\* values of the axis tensor's element type, around [-R, R) and at the ends
AxisValues(t, maxrank) ==
    {FromInt(v, TidxBytes(t)) : v \in (-(maxrank + 1))..maxrank}
        \cup {MinVal(TidxBytes(t)), MaxVal(TidxBytes(t))}

\* the axis tensor: its rank and the element scalar<Tidx>()() would read
AxisTensors(t, maxrank) == [rank : {0, 1}, value : AxisValues(t, maxrank)]

\* operands and axis tensors of the concurrent specification
ConcShapes == {<<2, 2>>, <<2, 65536>>}
ConcAxisTensors(t) ==
    [rank : {0}, value : {FromInt(v, TidxBytes(t)) : v \in {-1, 0, 2}}]
        \cup [rank : {1}, value : {FromInt(0, TidxBytes(t))}]

Invs == 1..NumInv
\* the invocation of the sequential specification
Solo == {1}

\* a value that was never written
Unset == <<>>

VARIABLES
    attr,          \* the kernel's shared Attributes {reverse, exclusive}
    tidx,          \* template parameter Tidx of the registered kernel
    op_name,       \* the operation the kernel is registered for
    pc,            \* pc[i]: where invocation i is
    input,         \* input[i]: shape of ctx->input(0)
    tensor_axis,   \* tensor_axis[i]: ctx->input(1)
    status,        \* status[i]: ctx->status()
    axis_,         \* axis_[i]: ScanInitHelper::axis_ of invocation i
    axis_read,     \* axis_read[i]: the axis tensor's element was read
    tensor_shape,  \* tensor_shape[i]: the collapsed shape
    graph          \* graph[i]: the nodes built in invocation i's dml::Graph

vars == <<attr, tidx, op_name, pc, input, tensor_axis, status, axis_,
          axis_read, tensor_shape, graph>>

(***************************************************************************)
(* ScanInitHelper                                                          *)
(***************************************************************************)
\* Tensor::dims(): the rank
dims(shape) == Len(shape)

\* TensorShape::dim_size(i), an int64; i counts from 0
dim_size(shape, i) == FromInt(shape[i + 1], Int64Bytes)

\* faulty variant of ScalarCheck: a vector passes as well
ScalarCheck_OrVector(ax) == ax.rank <= 1

\* OP_REQUIRES(ctx, TensorShapeUtils::IsScalar(tensor_axis.shape()), ...)
ScalarCheck(ax) == ax.rank = 0

\* faulty variant of ResolveAxis: a negative axis is not counted from the end
ResolveAxis_NoWrap(axis_arg, rank) == Convert(axis_arg, Int64Bytes)

\* axis_ = (axis_arg < 0) ? input.dims() + axis_arg : axis_arg;
\* the sum is taken in the common type of int and Tidx, the result is an int64
ResolveAxis(axis_arg, rank) ==
    LET w == Max(IntBytes, Len(axis_arg))
    IN  IF IsNegative(axis_arg)
        THEN Convert(Add(Convert(FromInt(rank, IntBytes), w),
                         Convert(axis_arg, w)), Int64Bytes)
        ELSE Convert(axis_arg, Int64Bytes)

\* FastBoundsCheck(index, limit): (uint64) index < (uint64) limit
FastBoundsCheck(index, limit) ==
    LET w == Max(Len(index), Len(limit))
    IN  ULess(Convert(index, w), Convert(limit, w))

\* faulty variant of AxisInRange: the limit is inclusive
AxisInRange_Inclusive(axis, rank) ==
    FastBoundsCheck(axis, FromInt(rank + 1, IntBytes))

\* FastBoundsCheck(axis_, input.dims())
AxisInRange(axis, rank) == FastBoundsCheck(axis, FromInt(rank, IntBytes))

\* the error of the scalar check
ScalarError == "InvalidArgument"

\* faulty variant of AxisRangeError: errors::OutOfRange
AxisRangeError_OutOfRange == "OutOfRange"

\* the error of the range check
AxisRangeError == "InvalidArgument"

\* faulty variant of InitHelperResult: the failed scalar check does not return
InitHelperResult_NoReturn(in, ax) ==
    LET axis == ResolveAxis(ax.value, dims(in))
    IN  [status  |-> IF ~ScalarCheck(ax) THEN ScalarError
                     ELSE IF AxisInRange(axis, dims(in)) THEN "OK"
                     ELSE AxisRangeError,
         written |-> TRUE,
         axis    |-> axis]

\* the constructor's effect on ctx->status(), axis_ and the axis tensor
InitHelperResult(in, ax) ==
    IF ~ScalarCheck(ax)
    THEN [status |-> ScalarError, written |-> FALSE, axis |-> Unset]
    ELSE LET axis_arg == ax.value
             axis == ResolveAxis(axis_arg, dims(in))
         IN  [status  |-> IF AxisInRange(axis, dims(in))
                          THEN "OK" ELSE AxisRangeError,
              written |-> TRUE,
              axis    |-> axis]

\* faulty variant of StoreAxis: axis_ is one static slot of the class
StoreAxis_Static(i, axis) == [j \in Invs |-> axis]

\* axis_ is a member of the helper object of invocation i
StoreAxis(i, axis) == [axis_ EXCEPT ![i] = axis]

ScanInitHelper(i, in, ax) ==
    /\ pc[i] = "idle"
    /\ LET r == InitHelperResult(in, ax)
       IN  /\ status' = [status EXCEPT ![i] = r.status]
           /\ axis_' = IF r.written THEN StoreAxis(i, r.axis) ELSE axis_
           /\ axis_read' = [axis_read EXCEPT ![i] = r.written]
    /\ input' = [input EXCEPT ![i] = in]
    /\ tensor_axis' = [tensor_axis EXCEPT ![i] = ax]
    /\ pc' = [pc EXCEPT ![i] = "helper"]
    /\ UNCHANGED <<attr, tidx, op_name, tensor_shape, graph>>

IsReverse == attr.reverse
IsExclusive == attr.exclusive
GetAxis(i) == axis_[i]

(***************************************************************************)
(* DmlScanKernel                                                           *)
(***************************************************************************)
\* acc *= d with an int acc and an int64 d: the product is taken in int64
\* and converted back to int
MulAssign(acc, d) == Convert(Mul(Convert(acc, Int64Bytes), d), IntBytes)

RECURSIVE CollapseLoop(_, _, _, _)
\* for (int i = from; i < to; ++i) acc *= shape.dim_size(i);
CollapseLoop(shape, i, to, acc) ==
    IF i < to
    THEN CollapseLoop(shape, i + 1, to, MulAssign(acc, dim_size(shape, i)))
    ELSE acc

left_dim_size(shape, axis) == CollapseLoop(shape, 0, axis, FromInt(1, IntBytes))

right_dim_size(shape, axis) ==
    CollapseLoop(shape, axis + 1, dims(shape), FromInt(1, IntBytes))

axis_dim_size(shape, axis) == Convert(dim_size(shape, axis), IntBytes)

\* TensorShape tensor_shape({1, left_dim_size, axis_dim_size, right_dim_size})
CollapsedShape(shape, axis) ==
    << FromInt(1, Int64Bytes),
       Convert(left_dim_size(shape, axis), Int64Bytes),
       Convert(axis_dim_size(shape, axis), Int64Bytes),
       Convert(right_dim_size(shape, axis), Int64Bytes) >>

dml_axis == 2

\* faulty variant of AxisDirection: the two directions are swapped
AxisDirection_Swapped(reverse) ==
    IF reverse THEN "DML_AXIS_DIRECTION_INCREASING"
    ELSE "DML_AXIS_DIRECTION_DECREASING"

AxisDirection(reverse) ==
    IF reverse THEN "DML_AXIS_DIRECTION_DECREASING"
    ELSE "DML_AXIS_DIRECTION_INCREASING"

\* REGISTER_KERNELS: the ScanFunctor each operation is registered with
RegisteredFunctor(name) ==
    IF name = "Cumsum" THEN "CumsumFunctor" ELSE "CumprodFunctor"

\* CumsumFunctor and CumprodFunctor: the dml call each forwards to
FunctorExpression(f) ==
    IF f = "CumsumFunctor" THEN "CumulativeSummation" ELSE "CumulativeProduct"

\* ScanFunctor()(input_tensor, dml_axis, axis_direction, exclusive)
ScanFunctor(f, sizes, axis, axis_direction, exclusive) ==
    [op        |-> FunctorExpression(f),
     sizes     |-> sizes,
     axis      |-> axis,
     direction |-> axis_direction,
     exclusive |-> exclusive]

\* the kernel wrapper constructs the kernel once the helper left the status OK
InitHelperSucceeded(i) == status[i] = "OK"

DmlScanKernel(i) ==
    /\ pc[i] = "helper"
    /\ InitHelperSucceeded(i)
    /\ LET axis == NatVal(GetAxis(i))
           axis_direction == AxisDirection(IsReverse)
           collapsed == CollapsedShape(input[i], axis)
           result == ScanFunctor(RegisteredFunctor(op_name), collapsed,
                                 dml_axis, axis_direction, IsExclusive)
       IN  /\ tensor_shape' = [tensor_shape EXCEPT ![i] = collapsed]
           /\ graph' = [graph EXCEPT ![i] = Append(graph[i], result)]
    /\ pc' = [pc EXCEPT ![i] = "initialized"]
    /\ UNCHANGED <<attr, tidx, op_name, input, tensor_axis, status, axis_,
                   axis_read>>

\* the kernel wrapper ends the invocation with the helper's error
AbortInvocation(i) ==
    /\ pc[i] = "helper"
    /\ ~InitHelperSucceeded(i)
    /\ pc' = [pc EXCEPT ![i] = "failed"]
    /\ UNCHANGED <<attr, tidx, op_name, input, tensor_axis, status, axis_,
                   axis_read, tensor_shape, graph>>

(***************************************************************************)
(* Specifications                                                          *)
(***************************************************************************)
Init ==
    /\ attr \in [reverse : BOOLEAN, exclusive : BOOLEAN]
    /\ tidx \in TidxTypes
    /\ op_name \in {"Cumsum", "Cumprod"}
    /\ pc = [i \in Invs |-> "idle"]
    /\ input = [i \in Invs |-> <<>>]
    /\ tensor_axis = [i \in Invs |-> [rank |-> 0, value |-> Unset]]
    /\ status = [i \in Invs |-> "OK"]
    /\ axis_ = [i \in Invs |-> Unset]
    /\ axis_read = [i \in Invs |-> FALSE]
    /\ tensor_shape = [i \in Invs |-> <<>>]
    /\ graph = [i \in Invs |-> <<>>]

\* one invocation, over all operands up to MaxRank
Next ==
    \E i \in Solo :
        \/ \E in \in Shapes(MaxRank), ax \in AxisTensors(tidx, MaxRank) :
               ScanInitHelper(i, in, ax)
        \/ DmlScanKernel(i)
        \/ AbortInvocation(i)

Spec == Init /\ [][Next]_vars

\* NumInv invocations of one kernel, interleaved
ConcNext ==
    \E i \in Invs :
        \/ \E in \in ConcShapes, ax \in ConcAxisTensors(tidx) :
               ScanInitHelper(i, in, ax)
        \/ DmlScanKernel(i)
        \/ AbortInvocation(i)

ConcSpec == Init /\ [][ConcNext]_vars

(***************************************************************************)
(* Vocabulary of the properties.                                           *)
(***************************************************************************)
I64(v) == FromInt(v, Int64Bytes)
Wide(b) == Convert(b, WideBytes)

Ran(i) == pc[i] # "idle"
Built(i) == pc[i] = "initialized"
Scalar(i) == tensor_axis[i].rank = 0
Rank(i) == Len(input[i])

\* the raw axis value a, widened to int64
RawAxis(i) == Convert(tensor_axis[i].value, Int64Bytes)

\* -R <= a < R
RawInRange(i) ==
    SLeq(I64(-Rank(i)), RawAxis(i)) /\ SLess(RawAxis(i), I64(Rank(i)))

\* 0 <= axis_ < R
EffectiveInRange(i) ==
    SLeq(I64(0), axis_[i]) /\ SLess(axis_[i], I64(Rank(i)))

RECURSIVE WideProduct(_, _, _)
\* the exact product of shape[from], ..., shape[to]; 1 when from > to
WideProduct(shape, from, to) ==
    IF from > to THEN FromInt(1, WideBytes)
    ELSE Mul(FromInt(shape[from], WideBytes), WideProduct(shape, from + 1, to))

\* the effective axis k of a built invocation
K(i) == NatVal(axis_[i])

\* the exact 4-tuple [1, prod dims[0..k), dims[k], prod dims[k+1..R)]
ExactCollapsed(shape, k) ==
    << FromInt(1, WideBytes),
       WideProduct(shape, 1, k),
       FromInt(shape[k + 1], WideBytes),
       WideProduct(shape, k + 2, Len(shape)) >>

WideShape(ts) == [n \in 1..Len(ts) |-> Wide(ts[n])]

\* the total element count fits in a signed 32-bit integer
FitsInt32(shape) ==
    SLeq(WideProduct(shape, 1, Len(shape)), Wide(MaxVal(IntBytes)))

(***************************************************************************)
(* C1: for every shape of rank R >= 1 and every validated axis, the        *)
(* collapsed shape [1, left, axis, right] has left * axis * right equal to *)
(* the total element count of the original shape.                          *)
(* Fails: the int accumulators drop the high bits of an int64 product.     *)
(***************************************************************************)
C1_ElementCountPreserved ==
    \A i \in Invs :
        (Built(i) /\ Rank(i) >= 1) =>
            Mul(Mul(Wide(tensor_shape[i][2]), Wide(tensor_shape[i][3])),
                Wide(tensor_shape[i][4]))
              = WideProduct(input[i], 1, Rank(i))

(***************************************************************************)
(* C2: for every shape of rank R >= 1 and every validated axis k, the      *)
(* collapsed shape is exactly [1, product of dims[0..k), dims[k], product  *)
(* of dims[k+1..R)], an empty product being 1.                             *)
(* Fails for the same reason as C1.                                        *)
(***************************************************************************)
C2_ExactCollapsedShape ==
    \A i \in Invs :
        (Built(i) /\ Rank(i) >= 1) =>
            WideShape(tensor_shape[i]) = ExactCollapsed(input[i], K(i))

(***************************************************************************)
(* C3: the helper resolves the raw axis a against the rank R >= 1 as       *)
(* (a < 0 ? R + a : a): -1 resolves to R - 1, -R resolves to 0, every a in *)
(* [-R, R) resolves to an axis in [0, R) that GetAxis returns, and a and   *)
(* a - R (0 <= a < R) resolve to the same axis.                            *)
(***************************************************************************)
C3_AxisResolution ==
    \A i \in Invs :
        (Ran(i) /\ Scalar(i) /\ Rank(i) >= 1) =>
            /\ RawAxis(i) = I64(-1) => axis_[i] = I64(Rank(i) - 1)
            /\ RawAxis(i) = I64(-Rank(i)) => axis_[i] = I64(0)
            /\ RawInRange(i) =>
                   /\ SLeq(I64(0), GetAxis(i))
                   /\ SLess(GetAxis(i), I64(Rank(i)))
            /\ (RawInRange(i) /\ ~IsNegative(RawAxis(i))) =>
                   axis_[i] = RawAxis(i)
            /\ (RawInRange(i) /\ IsNegative(RawAxis(i))) =>
                   axis_[i] = Add(RawAxis(i), I64(Rank(i)))

C3_Witness ==
    \E i \in Invs :
        /\ Ran(i) /\ Scalar(i) /\ Rank(i) = 3
        /\ RawAxis(i) = I64(-1)
        /\ axis_[i] = I64(2)
        /\ status[i] = "OK"

(***************************************************************************)
(* C4, as stated: a scalar axis whose effective axis is not in [0, R) is   *)
(* reported to the framework as OutOfRange.                                *)
(***************************************************************************)
C4_OutOfRangeError ==
    \A i \in Invs :
        (Ran(i) /\ Scalar(i) /\ ~EffectiveInRange(i)) =>
            status[i] = "OutOfRange"

(***************************************************************************)
(* C4, amended: a scalar axis whose effective axis is not in [0, R) is     *)
(* reported to the framework as InvalidArgument.                           *)
(***************************************************************************)
C4_InvalidArgumentError ==
    \A i \in Invs :
        (Ran(i) /\ Scalar(i) /\ ~EffectiveInRange(i)) =>
            status[i] = "InvalidArgument"

C4_Witness ==
    \E i \in Invs :
        /\ Ran(i) /\ Scalar(i) /\ Rank(i) = 2
        /\ RawAxis(i) = I64(2)
        /\ status[i] = "InvalidArgument"

(***************************************************************************)
(* C5: for a scalar axis a of either index type, the minimum and maximum   *)
(* of the type included, and an operand of rank R >= 0, the helper rejects *)
(* with InvalidArgument exactly when a is outside [-R, R) and accepts      *)
(* exactly when -R <= a < R; with R = 0 every axis is rejected.            *)
(***************************************************************************)
C5_RejectsExactlyOutsideRange ==
    \A i \in Invs :
        (Ran(i) /\ Scalar(i)) =>
            /\ status[i] = "InvalidArgument" <=> ~RawInRange(i)
            /\ status[i] = "OK" <=> RawInRange(i)
            /\ Rank(i) = 0 => status[i] = "InvalidArgument"

C5_Witness ==
    \E i \in Invs :
        /\ Ran(i) /\ Scalar(i) /\ Rank(i) = 2
        /\ tidx = "int64"
        /\ tensor_axis[i].value = MinVal(Int64Bytes)
        /\ status[i] = "InvalidArgument"

(***************************************************************************)
(* C6: a non-scalar axis tensor fails with InvalidArgument whatever it     *)
(* holds and whatever the operand's rank; its element is never read and    *)
(* axis_ is never written.                                                 *)
(***************************************************************************)
C6_NonScalarAxisRejected ==
    \A i \in Invs :
        (Ran(i) /\ ~Scalar(i)) =>
            /\ status[i] = "InvalidArgument"
            /\ ~axis_read[i]
            /\ axis_[i] = Unset

C6_Witness ==
    \E i \in Invs :
        /\ Ran(i) /\ ~Scalar(i) /\ Rank(i) = 2
        /\ RawAxis(i) = I64(1)
        /\ status[i] = "InvalidArgument"

(***************************************************************************)
(* C7: a successful invocation builds exactly one scan node, on axis 2 of  *)
(* the collapsed shape, decreasing iff reverse, with the exclusive         *)
(* attribute unchanged, summing for Cumsum and multiplying for Cumprod.    *)
(***************************************************************************)
C7_ScanNode ==
    \A i \in Invs :
        Built(i) =>
            /\ Len(graph[i]) = 1
            /\ graph[i][1].axis = 2
            /\ Len(graph[i][1].sizes) = 4
            /\ graph[i][1].sizes = tensor_shape[i]
            /\ graph[i][1].direction = "DML_AXIS_DIRECTION_DECREASING"
                   <=> attr.reverse
            /\ graph[i][1].direction = "DML_AXIS_DIRECTION_INCREASING"
                   <=> ~attr.reverse
            /\ graph[i][1].exclusive = attr.exclusive
            /\ op_name = "Cumsum" => graph[i][1].op = "CumulativeSummation"
            /\ op_name = "Cumprod" => graph[i][1].op = "CumulativeProduct"

C7_Witness ==
    \E i \in Invs :
        /\ Built(i) /\ Rank(i) = 3 /\ K(i) = 0
        /\ attr.reverse /\ ~attr.exclusive
        /\ op_name = "Cumprod"
        /\ graph[i][1].direction = "DML_AXIS_DIRECTION_DECREASING"

(***************************************************************************)
(* C8: validation precedes graph construction: after a validation failure  *)
(* the invocation ends with that error, no collapsed shape is computed and *)
(* no node is built; axis_ stays unwritten when the scalar check fails; a  *)
(* node exists only after both checks have passed.                         *)
(***************************************************************************)
C8_ValidationFirst ==
    \A i \in Invs :
        /\ (Ran(i) /\ status[i] # "OK") =>
               /\ pc[i] \in {"helper", "failed"}
               /\ tensor_shape[i] = <<>>
               /\ graph[i] = <<>>
        /\ (Ran(i) /\ ~Scalar(i)) => axis_[i] = Unset /\ status[i] # "OK"
        /\ (tensor_shape[i] # <<>> \/ graph[i] # <<>>) =>
               /\ Scalar(i)
               /\ axis_read[i]
               /\ EffectiveInRange(i)
               /\ status[i] = "OK"

C8_Witness ==
    \E i \in Invs :
        /\ pc[i] = "failed"
        /\ Scalar(i) /\ Rank(i) = 1
        /\ RawAxis(i) = I64(-2)
        /\ status[i] = "InvalidArgument"
        /\ graph[i] = <<>>

(***************************************************************************)
(* C9: invocations are independent and deterministic: a step of one        *)
(* invocation changes nothing of another and never the shared attributes;  *)
(* a finished invocation has the outcome it has when run alone on its      *)
(* inputs; two finished invocations with the same inputs have the same     *)
(* outcome.                                                                *)
(***************************************************************************)
Finished(i) == pc[i] \in {"initialized", "failed"}

\* what invocation i ended with
Outcome(i) ==
    [status |-> status[i], axis |-> axis_[i], shape |-> tensor_shape[i],
     nodes |-> graph[i]]

\* what an invocation on these inputs ends with when it runs alone
SoloOutcome(in, ax) ==
    LET r == InitHelperResult(in, ax)
    IN  IF r.status # "OK"
        THEN [status |-> r.status, axis |-> r.axis, shape |-> <<>>,
              nodes |-> <<>>]
        ELSE LET collapsed == CollapsedShape(in, NatVal(r.axis))
             IN  [status |-> "OK", axis |-> r.axis, shape |-> collapsed,
                  nodes |-> << ScanFunctor(RegisteredFunctor(op_name),
                                           collapsed, dml_axis,
                                           AxisDirection(attr.reverse),
                                           attr.exclusive) >>]

OwnState(i) ==
    <<pc[i], input[i], tensor_axis[i], status[i], axis_[i], axis_read[i],
      tensor_shape[i], graph[i]>>

StepIsLocal ==
    /\ <<attr, tidx, op_name>>' = <<attr, tidx, op_name>>
    /\ \A i \in Invs : pc'[i] = pc[i] => OwnState(i)' = OwnState(i)

OutcomesAsAlone ==
    /\ \A i \in Invs :
           Finished(i) => Outcome(i) = SoloOutcome(input[i], tensor_axis[i])
    /\ \A i, j \in Invs :
           (Finished(i) /\ Finished(j) /\ input[i] = input[j]
                /\ tensor_axis[i] = tensor_axis[j]) =>
               Outcome(i) = Outcome(j)

C9_Independent == [][StepIsLocal]_vars /\ []OutcomesAsAlone

C9_Witness ==
    \E i, j \in Invs :
        /\ i # j
        /\ Built(i) /\ pc[j] = "failed"
        /\ input[i] = input[j]
        /\ axis_[i] # axis_[j]

(***************************************************************************)
(* C10: when the total element count fits in a signed 32-bit integer,      *)
(* shapes with a zero-sized dimension included, no accumulation of         *)
(* left_dim_size, right_dim_size or axis_dim_size overflows or truncates:  *)
(* each collapsed dimension is the exact product of the original ones.     *)
(* Fails: a zero-sized dimension makes the total 0 while the product of    *)
(* the dimensions on the other side of the axis does not fit in an int.    *)
(***************************************************************************)
C10_ExactWithinInt32 ==
    \A i \in Invs :
        (Built(i) /\ FitsInt32(input[i])) =>
            /\ Wide(tensor_shape[i][2]) = WideProduct(input[i], 1, K(i))
            /\ Wide(tensor_shape[i][3]) = FromInt(input[i][K(i) + 1], WideBytes)
            /\ Wide(tensor_shape[i][4])
                 = WideProduct(input[i], K(i) + 2, Rank(i))
====
